---- MODULE Spec2Model ----
(***************************************************************************)
(* Model of the formatter's lowering of blocks, method-call chains and     *)
(* function-like parameter lists to the Document IR                        *)
(* (crates/formatter/src/format/{block,call,parameters}.rs), together with *)
(* the layout rules that render a Document.                                *)
(*                                                                         *)
(* The state is one formatter call: the immutable settings, the call (its  *)
(* operation, the formatter context it reads and its arguments) and what   *)
(* the call returned.                                                      *)
(*                                                                         *)
(* A second specification, SpecSource, models the loading of the source    *)
(* manager (src/source.rs): the configuration and the git environment, the *)
(* position in load, the starting paths and directory entries still to     *)
(* visit, the exclusion set, the manager's registered sources, the outcome *)
(* of the entry function and the last call of is_excluded.                 *)
(***************************************************************************)
EXTENDS Integers, Sequences, FiniteSets, TLC

VARIABLES settings, call, result

VARIABLES config, git, pc, starting_paths, walk, excludes_set, manager, outcome, probe

sourceVars ==
    <<config, git, pc, starting_paths, walk, excludes_set, manager, outcome, probe>>

vars == <<settings, call, result, sourceVars>>

(***************************************************************************)
(* Bounds of the model.                                                    *)
(***************************************************************************)
MaxStmts == 2
MaxNodes == 2
MaxComments == 1
MaxDepth == 3
MaxParams == 2
MaxDecorations == 2
MaxExcludes == 2
NarrowWidth == 6

(***************************************************************************)
(* Option<T>.                                                              *)
(***************************************************************************)
\* A returned bool, as a record so that every value of result is a record.
Returned(b) == [returned |-> b]

None == [some |-> FALSE]
Some(x) == [some |-> TRUE, value |-> x]

RECURSIVE Reverse(_)
Reverse(s) == IF s = <<>> THEN <<>> ELSE Append(Reverse(Tail(s)), Head(s))

RECURSIVE Flatten(_)
Flatten(ss) == IF ss = <<>> THEN <<>> ELSE Head(ss) \o Flatten(Tail(ss))

(***************************************************************************)
(* Document IR.                                                            *)
(***************************************************************************)
String(t) == [type |-> "String", text |-> t]
Line(k) == [type |-> "Line", kind |-> k]
hardline == Line("hard")
softline == Line("soft")
line == Line("default")
Indent(c) == [type |-> "Indent", contents |-> c]
GroupWithBreak(c, b) == [type |-> "Group", contents |-> c, break |-> b]
Group(c) == GroupWithBreak(c, FALSE)
IfBreakThen(d) == [type |-> "IfBreak", then |-> d]
BreakParent == [type |-> "BreakParent"]
Array(c) == [type |-> "Array", contents |-> c]
Empty == [type |-> "Empty"]
space == String(" ")

Children(d) ==
    IF d.type \in {"Indent", "Group", "Array"} THEN d.contents
    ELSE IF d.type = "IfBreak" THEN <<d.then>>
    ELSE <<>>

RECURSIVE Contains(_, _)
Contains(d, x) ==
    \/ d = x
    \/ \E i \in DOMAIN Children(d) : Contains(Children(d)[i], x)

(***************************************************************************)
(* Layout engine: render(doc, settings).                                   *)
(***************************************************************************)
TabWidth == 4
DefaultPrintWidth == 120
IndentUnit == "    "
PrintWidths == {NarrowWidth, DefaultPrintWidth}

RECURSIVE FlatWidth(_)
FlatSum(ds) ==
    LET RECURSIVE Sum(_)
        Sum(s) == IF s = <<>> THEN 0 ELSE FlatWidth(Head(s)) + Sum(Tail(s))
    IN Sum(ds)
FlatWidth(d) ==
    CASE d.type = "String" -> Len(d.text)
      [] d.type = "Line" -> IF d.kind = "default" THEN 1 ELSE 0
      [] d.type \in {"Indent", "Group", "Array"} -> FlatSum(d.contents)
      [] OTHER -> 0

ContainsHardline(ds) == \E i \in DOMAIN ds : Contains(ds[i], hardline)
ContainsBreakParent(ds) == \E i \in DOMAIN ds : Contains(ds[i], BreakParent)

Fits(ds, remaining) == ~ContainsHardline(ds) /\ FlatSum(ds) <= remaining

WillBreak(g, remaining) ==
    \/ g.break
    \/ ContainsHardline(g.contents)
    \/ ContainsBreakParent(g.contents)
    \/ ~Fits(g.contents, remaining)

Times(n, x) == [i \in 1..n |-> x]

Newline(st, depth) ==
    [out |-> st.out \o <<"\n">> \o Times(depth, IndentUnit), col |-> depth * TabWidth]

RECURSIVE RenderDoc(_, _, _, _, _)
RECURSIVE RenderSeq(_, _, _, _, _)
RenderSeq(ds, mode, depth, st, width) ==
    IF ds = <<>> THEN st
    ELSE RenderSeq(Tail(ds), mode, depth, RenderDoc(Head(ds), mode, depth, st, width), width)
RenderDoc(d, mode, depth, st, width) ==
    CASE d.type = "String" ->
            [out |-> IF d.text = "" THEN st.out ELSE Append(st.out, d.text),
             col |-> st.col + Len(d.text)]
      [] d.type = "Array" -> RenderSeq(d.contents, mode, depth, st, width)
      [] d.type = "Indent" -> RenderSeq(d.contents, mode, depth + 1, st, width)
      [] d.type = "Group" ->
            RenderSeq(d.contents,
                      IF WillBreak(d, width - st.col) THEN "break" ELSE "flat",
                      depth, st, width)
      [] d.type = "IfBreak" ->
            IF mode = "break" THEN RenderDoc(d.then, mode, depth, st, width) ELSE st
      [] d.type = "Line" ->
            IF d.kind = "hard" \/ mode = "break" THEN Newline(st, depth)
            ELSE IF d.kind = "soft" THEN st
            ELSE [out |-> Append(st.out, " "), col |-> st.col + 1]
      [] OTHER -> st

Render(d, width) == RenderDoc(d, "flat", 0, [out |-> <<>>, col |-> 0], width).out

MultiLine(out) == \E i \in DOMAIN out : out[i] = "\n"

(***************************************************************************)
(* Comment index: the dangling comments of a span, given as their number.  *)
(***************************************************************************)
CommentText == "/* c */"

print_dangling_comments(n, indent) ==
    IF n = 0 THEN None
    ELSE LET parts == Flatten([i \in 1..n |->
                         IF i < n THEN <<String(CommentText), hardline>>
                         ELSE <<String(CommentText)>>])
         IN Some(IF indent THEN Indent(<<hardline>> \o parts) ELSE Array(parts))

(***************************************************************************)
(* AST.                                                                    *)
(***************************************************************************)
StatementKinds == {"Noop", "Expression"}

BreakingParents ==
    {"Function", "MethodBody", "PropertyHookConcreteBody",
     "Try", "TryCatchClause", "TryFinallyClause"}
BreakingGrandParents ==
    {"ForBody", "WhileBody", "DoWhile", "If", "IfStatementBody",
     "IfStatementBodyElseClause", "IfStatementBodyElseIfClause", "ForeachBody"}
NodeKinds ==
    BreakingParents \cup BreakingGrandParents \cup {"Statement", "Program", "Block"}

SeqsUpTo(S, n) == UNION {[1..k -> S] : k \in 0..n}

\* parent_stack: the innermost node last.
ParentStacks == UNION {[1..k -> NodeKinds] : k \in 1..2}

parent_node(stack) == stack[Len(stack)]
grandparent_node(stack) == IF Len(stack) >= 2 THEN Some(stack[Len(stack) - 1]) ELSE None

FormatStatement(stmt) == String(IF stmt = "Noop" THEN ";" ELSE "stmt;")

print_statement_sequence(stmts) ==
    Flatten([i \in DOMAIN stmts |->
        IF i < Len(stmts) THEN <<FormatStatement(stmts[i]), hardline>>
        ELSE <<FormatStatement(stmts[i])>>])

(***************************************************************************)
(* format/block.rs                                                         *)
(***************************************************************************)
FormatNode(node) == String(node.text)

\* Mutant: the inline_empty test loses its negation.
closing_hardline_inline_flipped(length, inline_empty) == length > 0 \/ inline_empty

closing_hardline(length, inline_empty) == length > 0 \/ ~inline_empty

print_block_of_nodes(nodes, comments, inline_empty) ==
    LET length == Len(nodes)
        formatted == <<hardline>> \o Flatten([i \in 1..length |->
            <<FormatNode(nodes[i])>>
            \o (IF i < length
                THEN <<hardline>>
                     \o (IF nodes[i].next_line_empty THEN <<hardline>> ELSE <<>>)
                ELSE <<>>)])
        body == IF length = 0 THEN Empty ELSE Indent(formatted)
        dangling == print_dangling_comments(comments, TRUE)
        closing == IF dangling.some THEN <<dangling.value>>
                   ELSE IF closing_hardline(length, inline_empty) THEN <<hardline>>
                   ELSE <<>>
    IN Group(<<String("{"), body>> \o closing \o <<String("}")>>)

has_body(stmts) == \E i \in DOMAIN stmts : stmts[i] # "Noop"

\* Mutant: ForeachBody is missing from the control structures.
empty_block_should_break_no_foreach(stack) ==
    LET parent == parent_node(stack) IN
    IF parent \in {"Function", "MethodBody", "PropertyHookConcreteBody"} THEN TRUE
    ELSE IF parent \in {"Try", "TryCatchClause", "TryFinallyClause"} THEN TRUE
    ELSE IF parent = "Statement" THEN
        LET grand_parent == grandparent_node(stack) IN
        IF grand_parent.some
           /\ grand_parent.value \in
                {"ForBody", "WhileBody", "DoWhile", "If", "IfStatementBody",
                 "IfStatementBodyElseClause", "IfStatementBodyElseIfClause"}
        THEN TRUE
        ELSE FALSE
    ELSE FALSE

\* Mutant: only functions, methods, hooks and try blocks break when empty.
empty_block_should_break_no_control(stack) ==
    LET parent == parent_node(stack) IN
    IF parent \in {"Function", "MethodBody", "PropertyHookConcreteBody"} THEN TRUE
    ELSE IF parent \in {"Try", "TryCatchClause", "TryFinallyClause"} THEN TRUE
    ELSE FALSE

empty_block_should_break(stack) ==
    LET parent == parent_node(stack) IN
    IF parent \in {"Function", "MethodBody", "PropertyHookConcreteBody"} THEN TRUE
    ELSE IF parent \in {"Try", "TryCatchClause", "TryFinallyClause"} THEN TRUE
    ELSE IF parent = "Statement" THEN
        LET grand_parent == grandparent_node(stack) IN
        IF grand_parent.some
           /\ grand_parent.value \in
                {"ForBody", "WhileBody", "DoWhile", "If", "IfStatementBody",
                 "IfStatementBodyElseClause", "IfStatementBodyElseIfClause",
                 "ForeachBody"}
        THEN TRUE
        ELSE FALSE
    ELSE FALSE

print_block(stack, stmts, comments) ==
    LET body == IF has_body(stmts)
                THEN <<Indent(<<hardline>> \o print_statement_sequence(stmts))>>
                ELSE <<>>
        should_break == IF has_body(stmts) THEN TRUE ELSE empty_block_should_break(stack)
        dangling == print_dangling_comments(comments, TRUE)
        closing == IF dangling.some THEN dangling.value ELSE softline
    IN GroupWithBreak(<<String("{")>> \o body \o <<closing, String("}")>>, should_break)

(***************************************************************************)
(* format/call.rs                                                          *)
(***************************************************************************)
MethodCallKinds == {"Method", "NullSafeMethod"}

FormatExpression(expr) == String(expr.kind)
FormatMethod(c) == String(c.method)
print_call_arguments(link) == String("()")

RECURSIVE walk_method_calls(_, _)
walk_method_calls(current_expr, calls) ==
    IF current_expr.kind = "Call"
    THEN IF current_expr.call = "Method"
         THEN walk_method_calls(current_expr.object, Append(calls, current_expr))
         ELSE IF current_expr.call = "NullSafeMethod"
         THEN walk_method_calls(current_expr.object, Append(calls, current_expr))
         ELSE [current_expr |-> current_expr, calls |-> calls]
    ELSE [current_expr |-> current_expr, calls |-> calls]

\* Mutant: the accumulated calls are not reversed.
collect_method_call_chain_unreversed(expr) ==
    LET end == walk_method_calls(expr, <<>>) IN
    IF end.calls = <<>> THEN None
    ELSE Some([base |-> end.current_expr, calls |-> end.calls])

collect_method_call_chain(expr) ==
    LET end == walk_method_calls(expr, <<>>) IN
    IF end.calls = <<>> THEN None
    ELSE Some([base |-> end.current_expr, calls |-> Reverse(end.calls)])

\* Mutant: an instantiation with arguments is left bare (the PHP 8.4 form).
RECURSIVE base_needs_parerns_php84(_)
base_needs_parerns_php84(base) ==
    IF base.kind = "Parenthesized" THEN base_needs_parerns_php84(base.expression)
    ELSE IF base.kind = "Instantiation"
         THEN IF ~base.arguments THEN TRUE ELSE FALSE
    ELSE IF base.kind \in {"Binary", "UnaryPrefix", "UnaryPostfix", "Assignment",
                           "Conditional", "AnonymousClass", "Closure",
                           "ArrowFunction", "Match", "Yield", "Clone"}
         THEN TRUE
    ELSE FALSE

RECURSIVE base_needs_parerns(_)
base_needs_parerns(base) ==
    IF base.kind = "Parenthesized" THEN base_needs_parerns(base.expression)
    ELSE IF base.kind = "Instantiation"
         THEN IF ~base.arguments THEN TRUE ELSE TRUE
    ELSE IF base.kind \in {"Binary", "UnaryPrefix", "UnaryPostfix", "Assignment",
                           "Conditional", "AnonymousClass", "Closure",
                           "ArrowFunction", "Match", "Yield", "Clone"}
         THEN TRUE
    ELSE FALSE

\* Mutant: every link gets the plain operator.
chain_operator_plain(link) == String("->")

chain_operator(link) == IF link.call = "Method" THEN String("->") ELSE String("?->")

\* Mutant: the BreakParent is not appended.
chain_group_without_break_parent(parts) == Group(parts)

chain_group(parts) == Group(parts \o <<BreakParent>>)

print_method_call_chain(method_chain, f_settings) ==
    LET base_document == FormatExpression(method_chain.base)
        base_parts == IF base_needs_parerns(method_chain.base)
                      THEN <<String("("), base_document, String(")")>>
                      ELSE <<base_document>>
        calls == method_chain.calls
        same_line == f_settings.method_chain_breaking_style # "NextLine"
        first_parts ==
            IF same_line /\ calls # <<>>
            THEN <<chain_operator(calls[1]), FormatMethod(calls[1]),
                   Group(<<print_call_arguments(calls[1])>>)>>
            ELSE <<>>
        remaining == IF same_line /\ calls # <<>> THEN Tail(calls) ELSE calls
        links == [i \in DOMAIN remaining |->
                    Indent(<<hardline, chain_operator(remaining[i]),
                             FormatMethod(remaining[i]),
                             Group(<<print_call_arguments(remaining[i])>>)>>)]
    IN chain_group(base_parts \o first_parts \o links)

(***************************************************************************)
(* format/parameters.rs                                                    *)
(***************************************************************************)
VisibilityModifiers == {"public", "protected", "private"}

is_promoted_property(parameter) ==
    \E i \in DOMAIN parameter.modifiers : parameter.modifiers[i] \in VisibilityModifiers

FormatParameter(parameter) == String(parameter.text)

\* Mutant: property hooks no longer prevent hugging.
should_hug_the_only_parameter_ignoring_hooks(f_settings, parameters) ==
    IF Len(parameters) # 1 THEN FALSE
    ELSE LET parameter == parameters[1] IN
         IF parameter.has_comment THEN FALSE
         ELSE IF parameter.attribute_lists # 0 THEN FALSE
         ELSE IF parameter.modifiers # <<>> /\ f_settings.break_promoted_properties_list
              THEN FALSE
         ELSE TRUE

should_hug_the_only_parameter(f_settings, parameters) ==
    IF Len(parameters) # 1 THEN FALSE
    ELSE LET parameter == parameters[1] IN
         IF parameter.has_comment THEN FALSE
         ELSE IF parameter.attribute_lists # 0 \/ parameter.hooks THEN FALSE
         ELSE IF parameter.modifiers # <<>> /\ f_settings.break_promoted_properties_list
              THEN FALSE
         ELSE TRUE

parameters_should_break(f_settings, parameters) ==
    /\ ~should_hug_the_only_parameter(f_settings, parameters)
    /\ f_settings.break_promoted_properties_list
    /\ \E i \in DOMAIN parameters : is_promoted_property(parameters[i])

\* Mutant: the trailing comma is emitted whether or not the group breaks.
trailing_comma_parts_unconditional(f_settings) ==
    IF f_settings.trailing_comma THEN <<String(",")>> ELSE <<>>

trailing_comma_parts(f_settings) ==
    IF f_settings.trailing_comma THEN <<IfBreakThen(String(","))>> ELSE <<>>

print_function_like_parameters(f_settings, expand_first_argument, parameters, comments) ==
    LET should_hug_the_parameters == should_hug_the_only_parameter(f_settings, parameters)
        should_break == parameters_should_break(f_settings, parameters)
        len == Len(parameters)
        printed == Flatten([i \in 1..len |->
            <<FormatParameter(parameters[i])>>
            \o (IF i = len THEN <<>>
                ELSE <<String(",")>>
                     \o (IF should_hug_the_parameters THEN <<space>>
                         ELSE <<line>>
                              \o (IF parameters[i].next_line_empty
                                  THEN <<BreakParent, hardline>>
                                  ELSE <<>>)))])
        body == IF len # 0
                THEN <<Indent(<<softline>> \o printed)>>
                     \o trailing_comma_parts(f_settings)
                ELSE <<>>
        dangling == print_dangling_comments(comments, TRUE)
        closing == IF dangling.some THEN dangling.value ELSE softline
        parts == <<String("(")>> \o body \o <<closing, String(")")>>
    IN IF should_hug_the_parameters
       THEN Array(<<String("(")>> \o printed \o <<String(")")>>)
       ELSE IF expand_first_argument THEN Array(parts)
       ELSE GroupWithBreak(parts, should_break)

(***************************************************************************)
(* Inputs.                                                                 *)
(***************************************************************************)
StmtSeqs == SeqsUpTo(StatementKinds, MaxStmts)

NodeTexts == <<"n1;", "n2;", "n3;", "n4;">>
NodeSeqs ==
    UNION {{[i \in 1..k |-> [text |-> NodeTexts[i], next_line_empty |-> b[i]]] :
                b \in [1..k -> BOOLEAN]} : k \in 0..MaxNodes}

\* Expressions that are not built on another expression of interest.
LeafKinds ==
    {"Variable", "Literal", "Binary", "UnaryPrefix", "UnaryPostfix", "Assignment",
     "Conditional", "AnonymousClass", "Closure", "ArrowFunction", "Match", "Yield",
     "Clone"}
Leaves ==
    {[kind |-> k] : k \in LeafKinds}
    \cup {[kind |-> "Instantiation", arguments |-> a] : a \in BOOLEAN}
    \cup {[kind |-> "Call", call |-> c] : c \in {"Function", "StaticMethod"}}

RECURSIVE Height(_)
Height(e) ==
    IF e.kind = "Parenthesized" THEN Height(e.expression) + 1
    ELSE IF e.kind = "Call" /\ e.call \in MethodCallKinds THEN Height(e.object) + 1
    ELSE 0

\* The method selectors, one per nesting level, so that the links of a chain differ.
Selectors == <<"a", "b", "c", "d", "e", "f">>

RECURSIVE Expressions(_)
Expressions(d) ==
    IF d = 0 THEN Leaves
    ELSE LET sub == Expressions(d - 1) IN
         Leaves
         \cup {[kind |-> "Parenthesized", expression |-> e] : e \in sub}
         \cup {[kind |-> "Call", call |-> c, object |-> e,
                method |-> Selectors[Height(e) + 1]] :
                   c \in MethodCallKinds, e \in sub}

AllExpressions == Expressions(MaxDepth)

ParameterTexts == <<"p1", "p2", "p3", "p4">>
ParameterModifiers == {<<>>, <<"public">>, <<"readonly">>, <<"public", "readonly">>}

\* What a parameter carries beyond its variable: modifiers, attribute lists, hooks,
\* a comment on its span, a blank line after it.
Decorations(p) ==
    Len(p.modifiers) + p.attribute_lists
    + (IF p.hooks THEN 1 ELSE 0) + (IF p.has_comment THEN 1 ELSE 0)
    + (IF p.next_line_empty THEN 1 ELSE 0)

Parameter(t, m, a, h, c, b) ==
    [text |-> t, modifiers |-> m, attribute_lists |-> a, hooks |-> h,
     has_comment |-> c, next_line_empty |-> b]

\* The parameters at position n that carry at most budget decorations.
ParameterShapes(n, budget) ==
    {p \in {Parameter(ParameterTexts[n], m, a, h, c, b) :
                m \in ParameterModifiers, a \in 0..1, h \in BOOLEAN,
                c \in BOOLEAN, b \in BOOLEAN} :
        Decorations(p) <= budget}

\* The lists of n parameters that carry at most budget decorations in all.
RECURSIVE ShapeLists(_, _)
ShapeLists(n, budget) ==
    IF n = 0 THEN {<<>>}
    ELSE UNION {{Append(rest, p) : rest \in ShapeLists(n - 1, budget - Decorations(p))} :
                p \in ParameterShapes(n, budget)}

ParameterLists == UNION {ShapeLists(n, MaxDecorations) : n \in 0..MaxParams}

Settings ==
    [trailing_comma : BOOLEAN,
     break_promoted_properties_list : BOOLEAN,
     method_chain_breaking_style : {"SameLine", "NextLine"}]

(***************************************************************************)
(* src/source.rs: paths.  A path is the sequence of its components; a      *)
(* component is a name and an extension ("" when it has none).  An         *)
(* absolute path starts with the root component, and a path written "./x"  *)
(* starts with the current-directory component.                            *)
(***************************************************************************)
Component(name, ext) == [name |-> name, ext |-> ext]
Dir(name) == Component(name, "")
RootDir == Dir("/")
CurDir == Dir(".")

is_absolute(path) == path # <<>> /\ path[1] = RootDir

\* Path::starts_with compares whole components and resolves nothing.
starts_with(path, base) ==
    /\ Len(base) <= Len(path)
    /\ SubSeq(path, 1, Len(base)) = base

join(base, path) == IF is_absolute(path) THEN path ELSE base \o path

strip_prefix(path, base) == SubSeq(path, Len(base) + 1, Len(path))

extension(path) == IF path = <<>> THEN "" ELSE path[Len(path)].ext

eq_ignore_ascii_case(a, b) ==
    LET lower(s) == IF s = "PHP" THEN "php" ELSE IF s = "TXT" THEN "txt" ELSE s
    IN lower(a) = lower(b)

(***************************************************************************)
(* The file system the loader reads: the project root, which is also the   *)
(* working directory, and the entries below it in the order a directory    *)
(* walk lists them.  "other" is an entry that is neither a regular file, a *)
(* directory nor a symbolic link; "denied" is a directory whose listing    *)
(* may fail.                                                               *)
(***************************************************************************)
Root == <<RootDir, Dir("r")>>
Cwd == Root

FileSystem ==
    << [path |-> Root \o <<Dir("src")>>, kind |-> "dir"],
       [path |-> Root \o <<Dir("src"), Component("a", "php")>>, kind |-> "file"],
       [path |-> Root \o <<Dir("src"), Component("b", "txt")>>, kind |-> "file"],
       [path |-> Root \o <<Dir("src"), Component("fifo", "txt")>>, kind |-> "other"],
       [path |-> Root \o <<Dir("vendor")>>, kind |-> "dir"],
       [path |-> Root \o <<Dir("vendor"), Component("v", "php")>>, kind |-> "file"],
       [path |-> Root \o <<Dir("vendor"), Component("w", "PHP")>>, kind |-> "file"],
       [path |-> Root \o <<Dir("vendor"), Dir("locked")>>, kind |-> "denied"],
       [path |-> Root \o <<Component("link", "php")>>, kind |-> "symlink"] >>

\* The absolute path a path names: a relative path is read from the working directory.
Resolve(path) ==
    IF is_absolute(path) THEN path
    ELSE Cwd \o SelectSeq(path, LAMBDA c : c # CurDir)

Kind(path) ==
    LET abs == Resolve(path) IN
    IF abs = Root \/ abs = <<RootDir>> THEN "dir"
    ELSE IF \E i \in DOMAIN FileSystem : FileSystem[i].path = abs
         THEN FileSystem[CHOOSE i \in DOMAIN FileSystem : FileSystem[i].path = abs].kind
         ELSE "absent"

exists(path) == Kind(path) # "absent"
is_symlink(path) == Kind(path) = "symlink"
is_dir(path) == Kind(path) \in {"dir", "denied"}
is_file(path) == Kind(path) \in {"file", "symlink"}

\* WalkDir::new(path) with the filter of add_path_to_manager: the entries below
\* path, each named by path joined with its place below it; an entry whose path
\* starts with "." is ignored, and the listing of a denied directory may be an
\* error.
walk_dir(path) ==
    LET abs == Resolve(path)
        below == SelectSeq(FileSystem,
                           LAMBDA e : starts_with(e.path, abs) /\ e.path # abs)
    IN [i \in DOMAIN below |->
           [path |-> path \o strip_prefix(below[i].path, abs),
            error |-> below[i].kind = "denied"]]

walk_entries(path) ==
    SelectSeq(walk_dir(path), LAMBDA e : ~starts_with(e.path, <<CurDir>>))

(***************************************************************************)
(* src/source.rs: exclusions.  A pattern is a path whose components may be *)
(* "*" (one component), "*.ext" (one component with that extension) and    *)
(* "**" (any number of components).                                        *)
(***************************************************************************)
contains_wildcard(exclude) ==
    \E i \in DOMAIN exclude : exclude[i].name \in {"*", "**"}

component_match(pattern, component) ==
    IF pattern.name = "*" THEN pattern.ext = "" \/ pattern.ext = component.ext
    ELSE pattern = component

RECURSIVE glob_match(_, _)
glob_match(pattern, path) ==
    IF pattern = <<>> THEN path = <<>>
    ELSE IF Head(pattern).name = "**"
         THEN \/ glob_match(Tail(pattern), path)
              \/ path # <<>> /\ glob_match(pattern, Tail(path))
    ELSE /\ path # <<>>
         /\ component_match(Head(pattern), Head(path))
         /\ glob_match(Tail(pattern), Tail(path))

Exclusion(kind, value) == [kind |-> kind, value |-> value]

create_excludes_set(excludes, root) ==
    {IF contains_wildcard(excludes[i]) THEN Exclusion("Pattern", excludes[i])
     ELSE IF is_absolute(excludes[i]) THEN Exclusion("Path", excludes[i])
     ELSE Exclusion("Path", join(root, excludes[i])) : i \in DOMAIN excludes}

\* The orders in which a hash set may hand out its elements.
IterationOrders(set) ==
    {order \in [1..Cardinality(set) -> set] :
        \A i, j \in DOMAIN order : i # j => order[i] # order[j]}

ExclusionMatches(exclusion, path) ==
    \/ exclusion.kind = "Path" /\ starts_with(path, exclusion.value)
    \/ exclusion.kind = "Pattern" /\ glob_match(exclusion.value, path)

\* The loop that gives up at the first exclusion it visits.
is_excluded_first_only(path, excludes) ==
    IF excludes = <<>> THEN FALSE
    ELSE LET exclusion == Head(excludes) IN
         IF exclusion.kind = "Path" /\ starts_with(path, exclusion.value) THEN TRUE
         ELSE IF exclusion.kind = "Pattern" /\ glob_match(exclusion.value, path) THEN TRUE
         ELSE FALSE

\* excludes is the set in its iteration order; the last arm continues the loop.
RECURSIVE is_excluded(_, _)
is_excluded(path, excludes) ==
    IF excludes = <<>> THEN FALSE
    ELSE LET exclusion == Head(excludes) IN
         IF exclusion.kind = "Path" /\ starts_with(path, exclusion.value) THEN TRUE
         ELSE IF exclusion.kind = "Pattern" /\ glob_match(exclusion.value, path) THEN TRUE
         ELSE is_excluded(path, Tail(excludes))

is_accepted_file(path, extensions) ==
    IF extensions = {}
    THEN extension(path) # "" /\ eq_ignore_ascii_case(extension(path), "php")
    ELSE extension(path) # "" /\ extension(path) \in extensions

(***************************************************************************)
(* src/source.rs: the source manager and the loader.                       *)
(***************************************************************************)
Source(name, path, category) == [name |-> name, path |-> path, category |-> category]

insert_path(mgr, name, path, category) == mgr \cup {Source(name, path, category)}

\* The bundled stubs are inserted by content and have no path.
PHP_STUBS == {<<Component("@stub", "php")>>}

insert_stubs(mgr) == mgr \cup {Source(stub, <<>>, "BuiltIn") : stub \in PHP_STUBS}

\* add_file_to_manager without the skip of what lies under an include.
add_file_to_manager_no_skip(mgr, path, root, includes, excludes, extensions, user_defined) ==
    IF is_excluded(path, excludes) THEN mgr
    ELSE IF is_file(path) /\ ~is_accepted_file(path, extensions) THEN mgr
    ELSE LET name == IF starts_with(path, root) THEN strip_prefix(path, root) ELSE path
         IN insert_path(mgr, name, path,
                        IF user_defined THEN "UserDefined" ELSE "External")

add_file_to_manager(mgr, path, root, includes, excludes, extensions, user_defined) ==
    IF user_defined /\ \E i \in DOMAIN includes : starts_with(path, includes[i]) THEN mgr
    ELSE IF is_excluded(path, excludes) THEN mgr
    ELSE IF is_file(path) /\ ~is_accepted_file(path, extensions) THEN mgr
    ELSE LET name == IF starts_with(path, root) THEN strip_prefix(path, root) ELSE path
         IN insert_path(mgr, name, path,
                        IF user_defined THEN "UserDefined" ELSE "External")

StartingPath(path, user_defined) == [path |-> path, user_defined |-> user_defined]

\* The starting paths of load: the paths, or the root when there are none, as
\* user-defined; then the includes as external when externals are included.
load_starting_paths(cfg) ==
    (IF cfg.paths = <<>> THEN <<StartingPath(cfg.root, TRUE)>>
     ELSE [i \in DOMAIN cfg.paths |-> StartingPath(cfg.paths[i], TRUE)])
    \o (IF cfg.include_externals
        THEN [i \in DOMAIN cfg.includes |-> StartingPath(cfg.includes[i], FALSE)]
        ELSE <<>>)

\* What running `git --no-pager diff --name-only` can come to: the command cannot
\* be run at all, or it runs and exits with a status and its standard output.
GitOutput(spawned, success, stdout) ==
    [spawned |-> spawned, success |-> success, stdout |-> stdout]

\* The paths of git_modified_files, one per line of standard output, whatever the
\* exit status; only called when the command could be run.
git_modified_files(output) == output.stdout

(***************************************************************************)
(* The inputs of the loader.                                               *)
(***************************************************************************)
PathLists ==
    { <<>>,
      <<Root \o <<Dir("src")>>>>,
      <<<<Dir("src"), Component("a", "php")>>, Root \o <<Dir("vendor")>>>>,
      <<Root \o <<Component("link", "php")>>, Root \o <<Dir("missing")>>,
        Root \o <<Dir("src"), Component("fifo", "txt")>>>>,
      <<<<CurDir>>>> }

IncludeLists ==
    { <<>>,
      <<Root \o <<Dir("vendor")>>>>,
      <<<<Dir("vendor")>>, Root \o <<Dir("src")>>>> }

ExcludeStrings ==
    << <<Dir("src"), Component("b", "txt")>>,
       Root \o <<Dir("vendor")>>,
       <<Dir("**"), Component("*", "php")>>,
       <<Dir("src"), Dir("*")>> >>

ExcludeLists ==
    {SelectSeq(ExcludeStrings, LAMBDA e : e \in chosen) :
        chosen \in {S \in SUBSET {ExcludeStrings[i] : i \in DOMAIN ExcludeStrings} :
                       Cardinality(S) <= MaxExcludes}}

ExtensionSets == {{}, {"php"}, {"txt"}}

Configurations ==
    {[root |-> Root, paths |-> p, includes |-> i, excludes |-> e, extensions |-> x,
      include_externals |-> ie, include_stubs |-> is] :
        p \in PathLists, i \in IncludeLists, e \in ExcludeLists, x \in ExtensionSets,
        ie \in BOOLEAN, is \in BOOLEAN}

\* git is missing; the directory is not a repository (failure, nothing printed);
\* nothing is modified; one or two files are modified.
GitOutputs ==
    { GitOutput(FALSE, FALSE, <<>>),
      GitOutput(TRUE, FALSE, <<>>),
      GitOutput(TRUE, TRUE, <<>>),
      GitOutput(TRUE, TRUE, <<<<Dir("src"), Component("a", "php")>>>>),
      GitOutput(TRUE, TRUE, <<<<Dir("vendor"), Component("v", "php")>>,
                             <<Dir("src"), Component("b", "txt")>>>>) }

\* The paths is_excluded is asked about.
ProbePaths ==
    {FileSystem[i].path : i \in DOMAIN FileSystem}
    \cup {<<Dir("src"), Component("a", "php")>>, <<Dir("src"), Component("b", "txt")>>}

DefaultSettings ==
    [trailing_comma |-> TRUE, break_promoted_properties_list |-> TRUE,
     method_chain_breaking_style |-> "NextLine"]

DefaultConfiguration ==
    [root |-> Root, paths |-> <<>>, includes |-> <<>>, excludes |-> <<>>,
     extensions |-> {}, include_externals |-> FALSE, include_stubs |-> FALSE]

NoWalk == [entries |-> <<>>, user_defined |-> FALSE]
NoOutcome == [entry |-> "none", kind |-> "none"]
NoProbe == [made |-> FALSE, path |-> <<>>, excluded |-> FALSE]

formatterVars == <<settings, call, result>>

\* The loader has not been entered.
SourceIdle ==
    /\ pc = "idle"
    /\ starting_paths = <<>>
    /\ walk = NoWalk
    /\ excludes_set = <<>>
    /\ manager = {}
    /\ outcome = NoOutcome
    /\ probe = NoProbe

(***************************************************************************)
(* The state machine: one formatter call per step.                         *)
(***************************************************************************)
Init ==
    /\ settings \in Settings
    /\ call = [op |-> "none"]
    /\ result = None
    /\ config = DefaultConfiguration
    /\ git = GitOutput(TRUE, TRUE, <<>>)
    /\ SourceIdle

\* The formatter is created per file and has made no call yet.
Idle == call.op = "none"

PrintBlock ==
    /\ Idle
    /\ \E stack \in ParentStacks, stmts \in StmtSeqs, comments \in 0..MaxComments :
        /\ call' = [op |-> "print_block", parent_stack |-> stack,
                    stmts |-> stmts, comments |-> comments]
        /\ result' = print_block(stack, stmts, comments)
        /\ UNCHANGED <<settings, sourceVars>>

PrintBlockOfNodes ==
    /\ Idle
    /\ \E nodes \in NodeSeqs, comments \in 0..MaxComments, inline_empty \in BOOLEAN :
        /\ call' = [op |-> "print_block_of_nodes", nodes |-> nodes,
                    comments |-> comments, inline_empty |-> inline_empty]
        /\ result' = print_block_of_nodes(nodes, comments, inline_empty)
        /\ UNCHANGED <<settings, sourceVars>>

CollectMethodCallChain ==
    /\ Idle
    /\ \E expr \in AllExpressions :
        /\ call' = [op |-> "collect_method_call_chain", expr |-> expr]
        /\ result' = collect_method_call_chain(expr)
        /\ UNCHANGED <<settings, sourceVars>>

\* print_method_call_chain is given a chain that collect_method_call_chain returned.
PrintMethodCallChain ==
    /\ Idle
    /\ \E expr \in AllExpressions :
        /\ collect_method_call_chain(expr).some
        /\ call' = [op |-> "print_method_call_chain", expr |-> expr,
                    method_chain |-> collect_method_call_chain(expr).value]
        /\ result' = print_method_call_chain(collect_method_call_chain(expr).value, settings)
        /\ UNCHANGED <<settings, sourceVars>>

ShouldHugTheOnlyParameter ==
    /\ Idle
    /\ \E parameters \in ParameterLists :
        /\ call' = [op |-> "should_hug_the_only_parameter", parameters |-> parameters]
        /\ result' = Returned(should_hug_the_only_parameter(settings, parameters))
        /\ UNCHANGED <<settings, sourceVars>>

PrintFunctionLikeParameters ==
    /\ Idle
    /\ \E parameters \in ParameterLists, comments \in 0..MaxComments,
          expand_first_argument \in BOOLEAN :
        /\ call' = [op |-> "print_function_like_parameters", parameters |-> parameters,
                    comments |-> comments,
                    expand_first_argument |-> expand_first_argument]
        /\ result' = print_function_like_parameters(settings, expand_first_argument,
                                                    parameters, comments)
        /\ UNCHANGED <<settings, sourceVars>>

Next ==
    \/ PrintBlock
    \/ PrintBlockOfNodes
    \/ CollectMethodCallChain
    \/ PrintMethodCallChain
    \/ ShouldHugTheOnlyParameter
    \/ PrintFunctionLikeParameters

Spec == Init /\ [][Next]_vars

(***************************************************************************)
(* The state machine of the loader: one entry function per behaviour, and  *)
(* inside load one step per starting path and per directory entry.         *)
(***************************************************************************)
InitSource ==
    /\ settings = DefaultSettings
    /\ call = [op |-> "none"]
    /\ result = None
    /\ config \in Configurations
    /\ git \in GitOutputs
    /\ SourceIdle

\* One call of is_excluded on the exclusion set of the configuration, the set
\* handing out its elements in some order.
IsExcluded ==
    /\ pc = "idle"
    /\ \E path \in ProbePaths,
          order \in IterationOrders(create_excludes_set(config.excludes, config.root)) :
        /\ excludes_set' = order
        /\ probe' = [made |-> TRUE, path |-> path, excluded |-> is_excluded(path, order)]
    /\ pc' = "done"
    /\ UNCHANGED <<formatterVars, config, git, starting_paths, walk, manager, outcome>>

\* from_modified_files up to its call of load: expect panics when the command
\* could not be run, and no path means an empty manager.
FromModifiedFiles ==
    /\ pc = "idle"
    /\ IF ~git.spawned
       THEN /\ outcome' = [entry |-> "from_modified_files", kind |-> "Panic"]
            /\ pc' = "done"
            /\ UNCHANGED config
       ELSE IF git_modified_files(git) = <<>>
       THEN /\ outcome' = [entry |-> "from_modified_files", kind |-> "Ok"]
            /\ pc' = "done"
            /\ UNCHANGED config
       ELSE /\ outcome' = [entry |-> "from_modified_files", kind |-> "none"]
            /\ pc' = "load"
            /\ config' = [config EXCEPT !.paths = git_modified_files(git)]
    /\ UNCHANGED <<formatterVars, git, starting_paths, walk, excludes_set, manager, probe>>

\* load up to its loop over the starting paths.
Load ==
    /\ pc \in {"idle", "load"}
    /\ \E order \in IterationOrders(create_excludes_set(config.excludes, config.root)) :
        excludes_set' = order
    /\ starting_paths' = load_starting_paths(config)
    /\ manager' = {}
    /\ outcome' = IF pc = "idle" THEN [entry |-> "load", kind |-> "none"] ELSE outcome
    /\ pc' = "paths"
    /\ UNCHANGED <<formatterVars, config, git, walk, probe>>

\* add_path_to_manager up to its loop over the entries of a directory.
AddPathToManager ==
    /\ pc = "paths"
    /\ starting_paths # <<>>
    /\ LET start == Head(starting_paths) IN
       /\ starting_paths' = Tail(starting_paths)
       /\ IF ~exists(start.path) \/ is_symlink(start.path)
          THEN UNCHANGED <<walk, manager, pc>>
          ELSE IF ~is_dir(start.path)
          THEN /\ manager' = add_file_to_manager(manager, start.path, config.root,
                                                 config.includes, excludes_set,
                                                 config.extensions, start.user_defined)
               /\ UNCHANGED <<walk, pc>>
          ELSE /\ walk' = [entries |-> walk_entries(start.path),
                           user_defined |-> start.user_defined]
               /\ pc' = "walk"
               /\ UNCHANGED manager
    /\ UNCHANGED <<formatterVars, config, git, excludes_set, outcome, probe>>

\* One turn of the loop over the entries: an error, which a denied directory may
\* or may not give, ends load; a directory or a symbolic link is passed over;
\* anything else goes to add_file_to_manager.
WalkEntry ==
    /\ pc = "walk"
    /\ walk.entries # <<>>
    /\ \E fails \in (IF Head(walk.entries).error THEN BOOLEAN ELSE {FALSE}) :
       LET entry == Head(walk.entries) IN
       IF fails
       THEN /\ outcome' = [outcome EXCEPT !.kind = "Err"]
            /\ pc' = "done"
            /\ walk' = NoWalk
            /\ UNCHANGED manager
       ELSE /\ walk' = [walk EXCEPT !.entries = Tail(walk.entries)]
            /\ manager' = IF is_dir(entry.path) \/ is_symlink(entry.path) THEN manager
                          ELSE add_file_to_manager(manager, entry.path, config.root,
                                                   config.includes, excludes_set,
                                                   config.extensions, walk.user_defined)
            /\ UNCHANGED <<pc, outcome>>
    /\ UNCHANGED <<formatterVars, config, git, starting_paths, excludes_set, probe>>

\* The directory has no entry left: add_path_to_manager returns.
WalkEnd ==
    /\ pc = "walk"
    /\ walk.entries = <<>>
    /\ walk' = NoWalk
    /\ pc' = "paths"
    /\ UNCHANGED <<formatterVars, config, git, starting_paths, excludes_set, manager,
                   outcome, probe>>

\* No starting path is left: the stubs are inserted and load returns the manager.
LoadReturn ==
    /\ pc = "paths"
    /\ starting_paths = <<>>
    /\ manager' = IF config.include_stubs THEN insert_stubs(manager) ELSE manager
    /\ outcome' = [outcome EXCEPT !.kind = "Ok"]
    /\ pc' = "done"
    /\ UNCHANGED <<formatterVars, config, git, starting_paths, walk, excludes_set, probe>>

NextSource ==
    \/ IsExcluded
    \/ FromModifiedFiles
    \/ Load
    \/ AddPathToManager
    \/ WalkEntry
    \/ WalkEnd
    \/ LoadReturn

SpecSource == InitSource /\ [][NextSource]_vars

(***************************************************************************)
(* Properties.                                                             *)
(***************************************************************************)
Called(op) == call.op = op

AllNoop(stmts) == \A i \in DOMAIN stmts : stmts[i] = "Noop"

\* The break condition of a block as the specification words it.
BlockMustBreak(stack, stmts) ==
    \/ \E i \in DOMAIN stmts : stmts[i] # "Noop"
    \/ stack[Len(stack)] \in BreakingParents
    \/ /\ stack[Len(stack)] = "Statement"
       /\ Len(stack) >= 2
       /\ stack[Len(stack) - 1] \in BreakingGrandParents

\* C1: print_block returns a Group whose break flag is true if and only if some
\* statement is not Noop, or the parent is a function, method body, hook body, try,
\* catch or finally, or the parent is Statement and the grandparent is one of the
\* eight control-structure bodies; in every other case the flag is false.
C1_BlockBreakFlag ==
    Called("print_block") =>
        /\ result.type = "Group"
        /\ result.break <=> BlockMustBreak(call.parent_stack, call.stmts)

\* An empty block under Statement -> ForeachBody has been printed with break = true.
C1_Witness ==
    /\ Called("print_block")
    /\ call.stmts = <<"Noop">>
    /\ call.parent_stack = <<"ForeachBody", "Statement">>
    /\ result.break

\* An empty block (no statement but Noop, no dangling comment) that is the body of a
\* while loop in statement position.
EmptyWhileBody ==
    /\ Called("print_block")
    /\ AllNoop(call.stmts)
    /\ call.comments = 0
    /\ Len(call.parent_stack) >= 2
    /\ call.parent_stack[Len(call.parent_stack)] = "Statement"
    /\ call.parent_stack[Len(call.parent_stack) - 1] = "WhileBody"

\* C2 as claimed: the Group of an empty while body is not forced to break and renders
\* as {} on one line when it fits.
C2_EmptyWhileBodyCompact ==
    EmptyWhileBody =>
        /\ ~result.break
        /\ Render(result, DefaultPrintWidth) = <<"{", "}">>

\* C2 as amended: the Group of an empty while body is forced to break, and renders
\* as { and } on two lines at every print width.
C2_EmptyWhileBodyBreaks ==
    EmptyWhileBody =>
        /\ result.type = "Group"
        /\ result.break
        /\ \A w \in PrintWidths : Render(result, w) = <<"{", "\n", "}">>

\* The block of while (true) {} / while (true) {;} has been printed.
C2_Witness ==
    /\ EmptyWhileBody
    /\ call.stmts = <<"Noop">>
    /\ result.break

IsLine(d) == d.type = "Line"
IsDanglingComments(d) ==
    /\ d.type = "Indent"
    /\ d.contents[1] = hardline
    /\ \E i \in DOMAIN d.contents : d.contents[i] = String(CommentText)

\* C10: print_block_of_nodes returns a Group from "{" to "}"; dangling comments, when
\* there are any, stand (indented) right before "}" in place of the closing hardline;
\* with none, a hardline stands right before "}" if and only if nodes is non-empty or
\* inline_empty is false.  So an empty list with inline_empty and no comments holds
\* "{" and "}" (with an empty document between them) and no Line, and renders as {};
\* and a non-empty list always has a hardline or the comments between its last child
\* and "}".
C10_BlockOfNodesClosing ==
    Called("print_block_of_nodes") =>
        LET c == result.contents
            n == Len(c)
            before == c[n - 1]
            empty == call.nodes = <<>>
        IN /\ result.type = "Group"
           /\ c[1] = String("{")
           /\ c[n] = String("}")
           /\ call.comments > 0 =>
                /\ IsDanglingComments(before)
                /\ \A i \in 1..n : ~IsLine(c[i])
           /\ call.comments = 0 =>
                (before = hardline <=> (~empty \/ ~call.inline_empty))
           /\ (empty /\ call.inline_empty /\ call.comments = 0) =>
                /\ ~\E i \in 1..n : Contains(c[i], hardline) \/ IsLine(c[i])
                /\ SelectSeq(c, LAMBDA d : d # Empty) = <<String("{"), String("}")>>
                /\ \A w \in PrintWidths : Render(result, w) = <<"{", "}">>
           /\ ~empty =>
                /\ c[2].type = "Indent"
                /\ c[2].contents[Len(c[2].contents)] =
                       FormatNode(call.nodes[Len(call.nodes)])
                /\ n = 4
                /\ before = hardline \/ IsDanglingComments(before)

\* An empty class body was printed inline, and so was a non-empty one.
C10_Witness ==
    /\ Called("print_block_of_nodes")
    /\ call.nodes = <<>>
    /\ call.inline_empty
    /\ call.comments = 0
    /\ result = Group(<<String("{"), Empty, String("}")>>)

(***************************************************************************)
(* Properties of format/parameters.rs.                                     *)
(***************************************************************************)
\* A document that forces the group around it to break: a Group with break = true,
\* or one that holds a BreakParent or a hardline.
ForcesBreak(d) ==
    \/ d.type = "Group" /\ d.break
    \/ Contains(d, BreakParent)
    \/ Contains(d, hardline)

\* The break-promoted policy applies: not hugging, the setting is on, and some
\* parameter is a promoted property.
BreakPromotedCase ==
    /\ Called("print_function_like_parameters")
    /\ ~should_hug_the_only_parameter(settings, call.parameters)
    /\ settings.break_promoted_properties_list
    /\ \E i \in DOMAIN call.parameters : is_promoted_property(call.parameters[i])

\* C3: whenever the break-promoted policy applies, the document returned by
\* print_function_like_parameters forces the surrounding group to break, for every
\* value of argument_state.expand_first_argument.
C3_BreakPromotedForcesBreak == BreakPromotedCase => ForcesBreak(result)

\* The parameter list as the layout rules render it at print width w, inside a group
\* of the caller that is forced to break (enclosing) or not.
RenderedParameters(w, enclosing) == Render(GroupWithBreak(<<result>>, enclosing), w)

CommaBeforeClose(out) == Len(out) >= 2 /\ out[Len(out) - 1] = ","
EndsCommaNewlineClose(out) ==
    /\ Len(out) >= 3
    /\ out[Len(out) - 2] = ","
    /\ out[Len(out) - 1] = "\n"
    /\ out[Len(out)] = ")"

LastParameterAt(out, parameters) ==
    CHOOSE k \in DOMAIN out : out[k] = parameters[Len(parameters)].text

\* C4 as claimed: with trailing_comma on, a non-empty list rendered on several lines
\* ends with "," newline ")", a list rendered on one line ends with ")" and no comma
\* before it, and an empty list holds no comma.
C4_TrailingCommaDiscipline ==
    (Called("print_function_like_parameters") /\ settings.trailing_comma) =>
        \A w \in PrintWidths, enclosing \in BOOLEAN :
            LET out == RenderedParameters(w, enclosing) IN
            /\ out[Len(out)] = ")"
            /\ (call.parameters # <<>> /\ MultiLine(out)) => EndsCommaNewlineClose(out)
            /\ ~MultiLine(out) => ~CommaBeforeClose(out)
            /\ call.parameters = <<>> => \A i \in DOMAIN out : out[i] # ","

\* C4 as amended (each parameter printing as a one-line atom): with trailing_comma on,
\* a non-empty list rendered on several lines ends with "," newline ")" when the
\* parentheses hold no dangling comment; when they hold some, it has "," and a newline
\* right after its last parameter, and the comments stand between that and ")".  A
\* list rendered on one line ends with ")" and no comma before it, and an empty list
\* holds no comma.
C4_TrailingCommaDisciplineAmended ==
    (Called("print_function_like_parameters") /\ settings.trailing_comma) =>
        \A w \in PrintWidths, enclosing \in BOOLEAN :
            LET out == RenderedParameters(w, enclosing)
                hugged == should_hug_the_only_parameter(settings, call.parameters)
            IN
            /\ out[Len(out)] = ")"
            /\ (call.parameters # <<>> /\ MultiLine(out)) =>
                    IF call.comments = 0 \/ hugged THEN EndsCommaNewlineClose(out)
                    ELSE LET k == LastParameterAt(out, call.parameters) IN
                         /\ out[k + 1] = ","
                         /\ out[k + 2] = "\n"
                         /\ out[Len(out) - 1] = CommentText
            /\ ~MultiLine(out) => ~CommaBeforeClose(out)
            /\ call.parameters = <<>> => \A i \in DOMAIN out : out[i] # ","

\* A list of two parameters was lowered; it renders broken with a trailing comma at
\* the narrow width and on one line without it at the default width.
C4_Witness ==
    /\ Called("print_function_like_parameters")
    /\ settings.trailing_comma
    /\ Len(call.parameters) = 2
    /\ call.comments = 0
    /\ RenderedParameters(NarrowWidth, FALSE) =
          <<"(", "\n", IndentUnit, "p1", ",", "\n", IndentUnit, "p2", ",", "\n", ")">>
    /\ RenderedParameters(DefaultPrintWidth, FALSE) = <<"(", "p1", ",", " ", "p2", ")">>

\* The hug condition as the specification words it.
MayHug(f_settings, parameters) ==
    /\ Len(parameters) = 1
    /\ ~parameters[1].has_comment
    /\ parameters[1].attribute_lists = 0 /\ ~parameters[1].hooks
    /\ parameters[1].modifiers = <<>> \/ ~f_settings.break_promoted_properties_list

\* C5: should_hug_the_only_parameter is true if and only if there is exactly one
\* parameter, no comment on its span, no attribute list and no hooks on it, and it has
\* no modifiers or break_promoted_properties_list is off; and a hugged list is
\* returned as an Array that never forces a break.
C5_HugCondition ==
    /\ Called("should_hug_the_only_parameter") =>
            (result.returned <=> MayHug(settings, call.parameters))
    /\ (Called("print_function_like_parameters")
            /\ MayHug(settings, call.parameters)) =>
            /\ ~(settings.break_promoted_properties_list
                    /\ \E i \in DOMAIN call.parameters :
                            is_promoted_property(call.parameters[i]))
            /\ result = Array(<<String("("), FormatParameter(call.parameters[1]),
                               String(")")>>)
            /\ ~ForcesBreak(result)

\* A lone readonly parameter was hugged with break_promoted_properties_list off.
C5_Witness ==
    /\ Called("should_hug_the_only_parameter")
    /\ Len(call.parameters) = 1
    /\ call.parameters[1].modifiers = <<"readonly">>
    /\ ~settings.break_promoted_properties_list
    /\ result.returned

(***************************************************************************)
(* Properties of format/call.rs.                                           *)
(***************************************************************************)
IsMethodCall(e) == e.kind = "Call" /\ e.call \in {"Method", "NullSafeMethod"}

\* C7: collect_method_call_chain returns a chain if and only if the expression is a
\* Method or NullSafeMethod call.  In a chain, calls is non-empty, calls[1] is the
\* call on base, each later call is the call on the one before it, the last call is
\* the expression itself, and base is no Method or NullSafeMethod call.
C7_CollectChain ==
    Called("collect_method_call_chain") =>
        /\ result.some <=> IsMethodCall(call.expr)
        /\ result.some =>
            LET calls == result.value.calls
                base == result.value.base
            IN /\ calls # <<>>
               /\ calls[1].object = base
               /\ \A i \in 1..(Len(calls) - 1) : calls[i + 1].object = calls[i]
               /\ calls[Len(calls)] = call.expr
               /\ ~IsMethodCall(base)
               /\ \A i \in DOMAIN calls : IsMethodCall(calls[i])

\* The chain $v->a()?->b()->c() was collected.
C7_Witness ==
    /\ Called("collect_method_call_chain")
    /\ result.some
    /\ Len(result.value.calls) = 3
    /\ result.value.base = [kind |-> "Variable"]
    /\ result.value.calls[1].method = "a"
    /\ result.value.calls[2].call = "NullSafeMethod"
    /\ result.value.calls[3] = call.expr

\* The operator of a link as the specification words it.
OperatorText(link) ==
    CASE link.call = "Method" -> "->"
      [] link.call = "NullSafeMethod" -> "?->"

\* The three documents of a link: operator, method, arguments group.
LinkDocuments(link) ==
    <<String(OperatorText(link)), String(link.method),
      Group(<<print_call_arguments(link)>>)>>

\* How many documents the base takes at the head of the chain's group.
BaseLength(c) == IF c[1] = String("(") THEN 3 ELSE 1

\* C6: for a chain of n >= 1 links, under SameLine the first link (operator, method,
\* arguments group) follows the base directly, with no Line between, and exactly the
\* other n-1 links are each an Indent that starts with a hardline; under NextLine all
\* n links are each an Indent that starts with a hardline and only the base precedes
\* the first hardline.  The links are in chain order, with "->" for a Method link and
\* "?->" for a NullSafeMethod link.
C6_ChainLayout ==
    Called("print_method_call_chain") =>
        LET calls == call.method_chain.calls
            n == Len(calls)
            c == result.contents
            b == BaseLength(c)
        IN /\ n >= 1
           /\ result.type = "Group"
           /\ IF settings.method_chain_breaking_style = "SameLine"
              THEN /\ Len(c) = b + 3 + (n - 1) + 1
                   /\ SubSeq(c, b + 1, b + 3) = LinkDocuments(calls[1])
                   /\ \A i \in 2..n :
                        c[b + 2 + i] = Indent(<<hardline>> \o LinkDocuments(calls[i]))
                   /\ \A i \in 1..(b + 3) : ~Contains(c[i], hardline) /\ ~IsLine(c[i])
              ELSE /\ Len(c) = b + n + 1
                   /\ \A i \in 1..n :
                        c[b + i] = Indent(<<hardline>> \o LinkDocuments(calls[i]))
                   /\ \A i \in 1..b : ~Contains(c[i], hardline) /\ ~IsLine(c[i])
                   /\ c[b] \in {FormatExpression(call.method_chain.base), String(")")}

\* A chain of three links with a null-safe one was printed in the SameLine style.
C6_Witness ==
    /\ Called("print_method_call_chain")
    /\ settings.method_chain_breaking_style = "SameLine"
    /\ Len(call.method_chain.calls) = 3
    /\ call.method_chain.calls[2].call = "NullSafeMethod"
    /\ call.method_chain.base = [kind |-> "Variable"]
    /\ result.contents[2] = String("->")
    /\ result.contents[5].contents[2] = String("?->")

\* C8: print_method_call_chain returns a Group with a BreakParent as a direct child,
\* so the group is rendered in break mode whatever width remains; and a chain of two
\* or more links renders on more than one line in both styles.
C8_ChainAlwaysBreaks ==
    Called("print_method_call_chain") =>
        /\ result.type = "Group"
        /\ \E i \in DOMAIN result.contents : result.contents[i] = BreakParent
        /\ \A w \in PrintWidths \cup {0} : WillBreak(result, w)
        /\ Len(call.method_chain.calls) >= 2 =>
                \A w \in PrintWidths : MultiLine(Render(result, w))

\* $v->a()->b() was printed in the NextLine style and renders on three lines.
C8_Witness ==
    /\ Called("print_method_call_chain")
    /\ settings.method_chain_breaking_style = "NextLine"
    /\ call.method_chain.base = [kind |-> "Variable"]
    /\ Len(call.method_chain.calls) = 2
    /\ call.method_chain.calls[1].call = "Method"
    /\ call.method_chain.calls[2].call = "Method"
    /\ Render(result, DefaultPrintWidth) =
          <<"Variable", "\n", IndentUnit, "->", "a", "()",
            "\n", IndentUnit, "->", "b", "()">>

\* Whether a base needs parentheses, as the specification words it.
RECURSIVE WithoutParentheses(_)
WithoutParentheses(e) ==
    IF e.kind = "Parenthesized" THEN WithoutParentheses(e.expression) ELSE e
NeedsParentheses(e) ==
    WithoutParentheses(e).kind \in
        {"Instantiation", "Binary", "UnaryPrefix", "UnaryPostfix", "Assignment",
         "Conditional", "AnonymousClass", "Closure", "ArrowFunction", "Match",
         "Yield", "Clone"}

\* C9: the base of the chain is wrapped in "(" and ")" if and only if it needs
\* parentheses: a Parenthesized base does when its inner expression does, at any
\* depth; every Instantiation does, with or without arguments; Binary, UnaryPrefix,
\* UnaryPostfix, Assignment, Conditional, AnonymousClass, Closure, ArrowFunction,
\* Match, Yield and Clone do; no other expression does.
C9_BaseParentheses ==
    Called("print_method_call_chain") =>
        LET base == call.method_chain.base
            c == result.contents
        IN /\ base_needs_parerns(base) <=> NeedsParentheses(base)
           /\ IF NeedsParentheses(base)
              THEN SubSeq(c, 1, 3) = <<String("("), FormatExpression(base), String(")")>>
              ELSE c[1] = FormatExpression(base) /\ c[2] # String(")")

\* (new Foo())->a() was printed, its base parenthesised twice in the source.
C9_Witness ==
    /\ Called("print_method_call_chain")
    /\ call.method_chain.base =
          [kind |-> "Parenthesized", expression |->
              [kind |-> "Parenthesized", expression |->
                  [kind |-> "Instantiation", arguments |-> TRUE]]]
    /\ result.contents[1] = String("(")
    /\ result.contents[3] = String(")")

(***************************************************************************)
(* Properties of the loader, checked under SpecSource.                     *)
(***************************************************************************)
Returned_from(entry) == pc = "done" /\ outcome.entry = entry

\* git could not be run, or it ran and failed as it does outside a repository.
GitFailed == ~git.spawned \/ ~git.success

\* C11: from_modified_files returns an Error, neither a success nor a panic,
\* whenever the working directory is not part of a Git repository or the git
\* command is unavailable or fails to execute.
C11_GitFailureIsError ==
    (Returned_from("from_modified_files") /\ GitFailed) => outcome.kind = "Err"

\* The exclusions of the configuration, as a set: no order is part of it.
ConfiguredExclusions == create_excludes_set(config.excludes, config.root)

\* C12: is_excluded(path, excludes) returns true if and only if at least one
\* exclusion of the set matches the path (a Path exclusion that is a prefix of
\* it, or a Pattern exclusion that glob-matches it), whatever the order in which
\* the set is iterated: a non-matching exclusion visited first never hides a
\* matching one visited later.
C12_IsExcludedAnyMatch ==
    probe.made =>
        (probe.excluded <=>
            \E exclusion \in ConfiguredExclusions : ExclusionMatches(exclusion, probe.path))

\* is_excluded visited an exclusion that does not match before one that does.
C12_Witness ==
    /\ probe.made
    /\ Len(excludes_set) >= 2
    /\ ~ExclusionMatches(excludes_set[1], probe.path)
    /\ ExclusionMatches(excludes_set[2], probe.path)
    /\ probe.excluded

UnderInclude(path) ==
    \E i \in DOMAIN config.includes : starts_with(path, config.includes[i])

\* The sources registered from a path, that is all but the bundled stubs.
RegisteredFiles == {source \in manager : source.category # "BuiltIn"}

====
